---- MODULE Spec2Model ----
(***************************************************************************)
(* blobnn (src/blobnn.cpp): one invocation loads the raw/stats ledgers,    *)
(* truncates them, reads the manifest rois.tsv, runs the segmentation and  *)
(* mask synthesis for every in-range ROI, and rewrites both ledgers as     *)
(* carry-forward-low ++ regenerated rows ++ carry-forward-high.            *)
(*                                                                         *)
(* Images are modelled as one row of Cols pixel columns.  The network and  *)
(* the contour tracer (torch, OpenCV) are oracles: the probability raster  *)
(* and the contour list they return travel with the image.                 *)
(***************************************************************************)
EXTENDS Integers, Sequences, FiniteSets, TLC

\* ------------------------------------------------------------------ bounds

MaxUid == 3          \* uids of the manifest and of the range arguments: 1..MaxUid
MaxLines == 4        \* an invocation starts only on a raw ledger of at most MaxLines lines
Cols == 24           \* pixel columns of a catalogue ROI image

\* ------------------------------------------------------- program constants

padding == 5
AreaLo == 1000
AreaHi == 50000
Thresh == 180
DefaultCutoff == 180
MaxIdInit == 1
INT32_MAX == 2147483647
INT32_MIN == -INT32_MAX - 1
DilateIter == 2

\* --------------------------------------------------------------- sequences

RECURSIVE SumOver(_, _)
SumOver(f, S) ==
    IF S = {} THEN 0
    ELSE LET p == CHOOSE q \in S : TRUE IN f[p] + SumOver(f, S \ {p})

MaxOf(a, b) == IF a > b THEN a ELSE b

Abs(n) == IF n < 0 THEN -n ELSE n

\* ------------------------------------------------------------- image model

Pix(cols) == 0 .. (cols - 1)

\* cv::Scalar(0) masks of the detection-failed branch: no pixel is set
Blank == {}

\* cv::threshold(src, dst, thresh, 255, THRESH_BINARY): set where src > thresh
Threshold(src, cols, thresh) == {p \in Pix(cols) : src[p] > thresh}

\* cv::findContours on the binary mask: the tracer's answer for this image
\* (an all-black mask has no contour)
FindContours(binary, img) == IF binary = {} THEN << >> ELSE img.conts

\* cv::drawContours(.., FILLED) of one contour: its filled columns
Filled(cont, cols) == {p \in Pix(cols) : cont.lo <= p /\ p <= cont.hi}

\* the rectangle right of the contour's bounding box, up to the right border
RightOf(cont, cols) == {p \in Pix(cols) : p >= cont.hi + 1}

\* the rectangle inset from the border by padding
Inset(cols) == {p \in Pix(cols) : padding <= p /\ p <= cols - padding}

\* cv::morphologyEx(MORPH_ERODE, 3x3, iterations k): borders do not erode
Erode(mask, cols, k) ==
    {p \in mask : \A q \in Pix(cols) : Abs(q - p) <= k => q \in mask}

\* cv::morphologyEx(MORPH_DILATE, 3x3, iterations k)
Dilate(mask, cols, k) ==
    {p \in Pix(cols) : \E q \in mask : Abs(q - p) <= k}

\* the area test with its lower bound included
PassesBroken(cont) == cont.area >= AreaLo /\ cont.area < AreaHi

\* the area test of the contour loop
Passes(cont) == cont.area > AreaLo /\ cont.area < AreaHi

\* the contour loop: every passing contour is drawn into fg and carved out of
\* bgloose together with the rectangle to its right; detected is set
RECURSIVE ContourLoop(_, _, _, _)
ContourLoop(conts, idc, cols, acc) ==
    IF idc > Len(conts) THEN acc
    ELSE LET cont == conts[idc] IN
         IF Passes(cont)
         THEN ContourLoop(conts, idc + 1, cols,
                  [fg       |-> acc.fg \cup Filled(cont, cols),
                   bgloose  |-> (acc.bgloose \ RightOf(cont, cols)) \ Filled(cont, cols),
                   detected |-> TRUE])
         ELSE ContourLoop(conts, idc + 1, cols, acc)

\* the binarization of the probability raster: the literal 180, not pred_cutoff
Binarize(outcv, cols) == Threshold(outcv, cols, Thresh)

\* model.forward on the reversed ROI, scaled to 0..255: the network's answer
Forward(img) == img.prob

\* one iteration of the inference loop for a ROI whose detection succeeded
Synthesize(img) ==
    LET outcv  == Forward(img)
        binary == Binarize(outcv, img.cols)
        conts  == FindContours(binary, img)
        res    == ContourLoop(conts, 1, img.cols,
                      [fg |-> {}, bgloose |-> Inset(img.cols), detected |-> FALSE])
    IN  [back_strict    |-> Erode(res.bgloose, img.cols, padding),
         back_loose     |-> res.bgloose,
         foreground     |-> res.fg,
         graymask       |-> outcv,
         binary         |-> binary,
         forwarded      |-> TRUE,
         has_foreground |-> res.detected]

\* the detection-failed branch: 3x3 black placeholders, no inference
Placeholder ==
    [back_strict    |-> Blank,
     back_loose     |-> Blank,
     foreground     |-> Blank,
     graymask       |-> << >>,
     binary         |-> Blank,
     forwarded      |-> FALSE,
     has_foreground |-> FALSE]

\* the first loop without its detection-failed branch
MaskStepAlways(rec) == Synthesize(rec.roi)

\* one iteration of the first loop of process
MaskStep(rec) ==
    IF ~rec.det_success THEN Placeholder ELSE Synthesize(rec.roi)

\* ------------------------------------------------------------- statistics

\* a double that is a quotient of integers: num / den, den > 0
Rat(n, d) == [num |-> n, den |-> d]
IntRat(n) == Rat(n, 1)
RatSub(a, b) == Rat(a.num * b.den - b.num * a.den, a.den * b.den)
RatMul(a, n) == Rat(a.num * n, a.den)
RatPos(a) == a.num > 0

\* cv::mean(src, mask): the mean of src over the set pixels, 0 when none is set
Mean(roi, mask) ==
    LET on == mask \cap Pix(roi.cols) IN
    IF on = {} THEN IntRat(0)
    ELSE Rat(SumOver(roi.pix, on), Cardinality(on))

\* any(morph), declared in blobnn.h: the number of nonzero pixels of the mask
any(morph) == Cardinality(morph)

\* log(x): the row keeps the argument the logarithm was taken of
Ln(x) == [ln |-> x]

Mark(b) == IF b THEN "x" ELSE "."

\* foreground mean and size: the sentinels -1, or the twice-dilated mask
ForeStats(rec, ms) ==
    IF ms.has_foreground
    THEN LET morph == Dilate(ms.foreground, rec.roi.cols, DilateIter) IN
         [fm |-> Mean(rec.roi, morph), fsz |-> any(morph)]
    ELSE [fm |-> IntRat(-1), fsz |-> -1]

\* the 13 columns of a raw row
RawRow(rec, ms) ==
    LET fs == ForeStats(rec, ms) IN
    [uid |-> rec.uid, fname |-> rec.fname, sid |-> rec.sid, name |-> rec.name,
     strpass1 |-> Mark(rec.det_success), strpass2 |-> Mark(rec.scale_success),
     strpass3 |-> Mark(ms.has_foreground),
     fm |-> fs.fm, fsz |-> fs.fsz,
     backsmean |-> Mean(rec.roi, ms.back_strict),
     backlmean |-> Mean(rec.roi, ms.back_loose),
     scale_dark |-> rec.scale_dark, scale_light |-> rec.scale_light]

\* the gate with the test of (backsmean - fm) left out
StatGateNoDiff(rec, ms) ==
    LET fs == ForeStats(rec, ms)
        backsmean == Mean(rec.roi, ms.back_strict)
        backlmean == Mean(rec.roi, ms.back_loose)
    IN  /\ rec.det_success /\ rec.scale_success /\ ms.has_foreground
        /\ fs.fsz > 0 /\ RatPos(fs.fm)
        /\ rec.scale_light > 0 /\ rec.scale_dark > 0
        /\ rec.scale_light > rec.scale_dark
        /\ RatPos(backlmean) /\ RatPos(backsmean)

\* the condition under which the stats row is written
StatGate(rec, ms) ==
    LET fs == ForeStats(rec, ms)
        backsmean == Mean(rec.roi, ms.back_strict)
        backlmean == Mean(rec.roi, ms.back_loose)
    IN  /\ rec.det_success /\ rec.scale_success /\ ms.has_foreground
        /\ fs.fsz > 0 /\ RatPos(fs.fm) /\ RatPos(RatSub(backsmean, fs.fm))
        /\ rec.scale_light > 0 /\ rec.scale_dark > 0
        /\ rec.scale_light > rec.scale_dark
        /\ RatPos(backlmean) /\ RatPos(backsmean)

\* the 11 columns of a stats row (fname and sample name included)
StatRow(rec, ms) ==
    LET fs == ForeStats(rec, ms)
        backsmean == Mean(rec.roi, ms.back_strict)
        backlmean == Mean(rec.roi, ms.back_loose)
    IN  [uid |-> rec.uid, fname |-> rec.fname, sid |-> rec.sid,
         logabs    |-> Ln(RatMul(RatSub(backsmean, fs.fm), fs.fsz)),
         logdelta  |-> Ln(IntRat(rec.scale_light - rec.scale_dark)),
         loglight  |-> Ln(IntRat(rec.scale_light)),
         logdark   |-> Ln(IntRat(rec.scale_dark)),
         logback   |-> Ln(backlmean),
         logstrict |-> Ln(backsmean),
         logmean   |-> Ln(fs.fm),
         logsz     |-> Ln(IntRat(fs.fsz)),
         name      |-> rec.name]

\* ------------------------------------------------------------ ledger lines

\* atoi of the first column of a ledger line: the uid it was printed from
Atoi(line) == line.uid

Uids(lines) == [j \in 1 .. Len(lines) |-> Atoi(lines[j])]

\* the inner loop of a carry-forward: the lines whose key is i, in file order
RECURSIVE LinesOf(_, _, _, _)
LinesOf(lines, uids, i, j) ==
    IF j > Len(uids) THEN << >>
    ELSE (IF uids[j] = i THEN << lines[j] >> ELSE << >>)
         \o LinesOf(lines, uids, i, j + 1)

\* for (i = from; i <= to; i++): the lines of every id, in ascending id; an
\* id no loaded line has prints nothing, so the loop is followed from one
\* loaded id to the next
RECURSIVE CarryForward(_, _, _, _)
CarryForward(lines, uids, from, to) ==
    LET ahead == {uids[j] : j \in {k \in DOMAIN uids : uids[k] >= from /\ uids[k] <= to}}
    IN  IF ahead = {} THEN << >>
        ELSE LET id == CHOOSE x \in ahead : \A y \in ahead : x <= y
             IN  LinesOf(lines, uids, id, 1) \o CarryForward(lines, uids, id + 1, to)

\* -------------------------------------------------------------- the inputs

Img(bg, blob, probin, lo, hi, conts) ==
    [cols  |-> Cols,
     pix   |-> [p \in Pix(Cols) |-> IF lo <= p /\ p <= hi THEN blob ELSE bg],
     prob  |-> [p \in Pix(Cols) |-> IF lo <= p /\ p <= hi THEN probin ELSE 0],
     conts |-> conts]

\* cv::imread of a file that is not there: an empty image
NoImage == [cols |-> 0, pix |-> << >>, prob |-> << >>, conts |-> << >>]

\* the kinds of manifest row of the ledger runs: a dark blob on a bright
\* surface with both upstream steps passed, and a failed detection
Catalogue ==
    << [fname |-> "a.jpg", sid |-> 1, name |-> "s1",
        det_success |-> TRUE, scale_success |-> TRUE,
        scale_dark |-> 10, scale_light |-> 200,
        roi |-> Img(150, 50, 255, 16, 18, << [area |-> 2000, lo |-> 16, hi |-> 18] >>)],
       [fname |-> "b.jpg", sid |-> 2, name |-> "s2",
        det_success |-> FALSE, scale_success |-> FALSE,
        scale_dark |-> 0, scale_light |-> 0,
        roi |-> NoImage] >>

Row(u, k) == [uid |-> u] @@ k

RECURSIVE Build(_, _)
Build(f, u) ==
    IF u > MaxUid THEN << >>
    ELSE (IF f[u] = 0 THEN << >> ELSE << Row(u, Catalogue[f[u]]) >>) \o Build(f, u + 1)

\* the manifests upstream can leave: rows of distinct uids in ascending order
Manifests == {Build(f, 1) : f \in [1 .. MaxUid -> 0 .. Len(Catalogue)]}

StartArgs == 1 .. (MaxUid + 1)
EndArgs == 0 .. MaxUid
ModelFiles == {"ok", "missing", "invalid"}

\* ------------------------------------------------------------------- state

VARIABLES
    rawtsv, statstsv,        \* the content of raw.tsv and stats.tsv
    roisthere, roistsv,      \* rois.tsv: is it a regular file, and its rows
    modelpt,                 \* what --model points at
    start_id, end_id, max_id, pred_cutoff,
    rawlines, statlines, rawuids, statuids,
    roivec,                  \* the parallel vectors filled by the scan, one record per row
    masks,                   \* back_strict, back_loose, foreground, graymask, has_foreground;
                             \* with the binary mask, and whether model.forward was called
    croi, i,                 \* the indices of the two loops of process
    annots,                  \* the uids whose annots/ and masks/ images this run wrote
    marks,                   \* the ledger lengths when the low and the regenerate phase ended
    pc,
    rerun,                   \* this run repeats the one before it: same range, same manifest
    ppc, pargs, pcache,      \* two instances on one output folder: position, range, loaded lines
    pchunks, ppos,           \* what an instance has still to write, and its offsets in the two files
    prior, order, overlap    \* the ledgers before, who started first, did the two overlap

vars == << rawtsv, statstsv, roisthere, roistsv, modelpt, start_id, end_id, max_id,
           pred_cutoff, rawlines, statlines, rawuids, statuids, roivec, masks,
           croi, i, annots, marks, pc, rerun,
           ppc, pargs, pcache, pchunks, ppos, prior, order, overlap >>

files == << rawtsv, statstsv, roisthere, roistsv >>
args == << modelpt, start_id, end_id, pred_cutoff >>
cache == << rawlines, statlines, rawuids, statuids >>
locals == << roivec, masks, croi, i, annots, marks, max_id >>
instances == << ppc, pargs, pcache, pchunks, ppos, prior, order, overlap >>

Procs == {1, 2}
NoLedgers == [raw |-> << >>, stat |-> << >>]

\* no second instance: the state of the instance variables in the one-process runs
Alone ==
    /\ ppc = [p \in Procs |-> "none"]
    /\ pargs = [p \in Procs |-> << 1, MaxUid >>]
    /\ pcache = [p \in Procs |-> NoLedgers]
    /\ pchunks = [p \in Procs |-> << >>]
    /\ ppos = [p \in Procs |-> [raw |-> 0, stat |-> 0]]
    /\ prior = NoLedgers
    /\ order = << >>
    /\ overlap = FALSE

\* the globals of a process that has not run yet
Fresh ==
    /\ max_id' = MaxIdInit
    /\ rawlines' = << >> /\ statlines' = << >>
    /\ rawuids' = << >> /\ statuids' = << >>
    /\ roivec' = << >> /\ masks' = << >>
    /\ croi' = 0 /\ i' = 0
    /\ annots' = {}
    /\ marks' = << >>

Init ==
    /\ rawtsv = << >> /\ statstsv = << >>
    /\ roisthere = FALSE /\ roistsv = << >>
    /\ modelpt = "ok"
    /\ start_id = 1 /\ end_id = MaxUid /\ pred_cutoff = DefaultCutoff
    /\ max_id = MaxIdInit
    /\ rawlines = << >> /\ statlines = << >>
    /\ rawuids = << >> /\ statuids = << >>
    /\ roivec = << >> /\ masks = << >>
    /\ croi = 0 /\ i = 0
    /\ annots = {}
    /\ marks = << >>
    /\ pc = "idle"
    /\ rerun = FALSE
    /\ Alone

\* ----------------------------------------------------------------- actions

\* the upstream stage rewrites rois.tsv between two invocations
Upstream(m) ==
    /\ pc = "idle"
    /\ ~roisthere \/ m # roistsv
    /\ roisthere' = TRUE /\ roistsv' = m
    /\ UNCHANGED << rawtsv, statstsv, args, cache, locals, pc, rerun >>
    /\ UNCHANGED instances

\* rois.tsv is removed
Remove ==
    /\ pc = "idle" /\ roisthere
    /\ roisthere' = FALSE /\ roistsv' = << >>
    /\ UNCHANGED << rawtsv, statstsv, args, cache, locals, pc, rerun >>
    /\ UNCHANGED instances

\* parse_opt: --start m --end n --cutoff c --model t
Invoke(m, n, c, t) ==
    /\ pc = "idle"
    /\ Len(rawtsv) <= MaxLines
    /\ start_id' = m /\ end_id' = n /\ pred_cutoff' = c /\ modelpt' = t
    /\ rerun' = FALSE
    /\ pc' = "load"
    /\ UNCHANGED << files, cache, locals >>
    /\ UNCHANGED instances

\* main: both ledgers are read into rawlines/statlines, keyed by atoi of column 1
Load ==
    /\ pc = "load"
    /\ rawlines' = rawtsv /\ rawuids' = Uids(rawtsv)
    /\ statlines' = statstsv /\ statuids' = Uids(statstsv)
    /\ pc' = "trunc"
    /\ UNCHANGED << files, args, locals, rerun >>
    /\ UNCHANGED instances

\* main: fopen(rawfpath, "w"), fopen(statfpath, "w")
Truncate ==
    /\ pc = "trunc"
    /\ rawtsv' = << >> /\ statstsv' = << >>
    /\ pc' = "rois"
    /\ UNCHANGED << roisthere, roistsv, args, cache, locals, rerun >>
    /\ UNCHANGED instances

\* main: rois.tsv must be a regular file, else return 1
CheckRois ==
    /\ pc = "rois"
    /\ pc' = IF roisthere THEN "model" ELSE "failed"
    /\ UNCHANGED << files, args, cache, locals, rerun >>
    /\ UNCHANGED instances

\* main: the model must be a regular file (else return 1) that torch::jit::load
\* accepts (else the exception ends the process)
LoadModel ==
    /\ pc = "model"
    /\ pc' = IF modelpt = "ok" THEN "scan" ELSE "failed"
    /\ UNCHANGED << files, args, cache, locals, rerun >>
    /\ UNCHANGED instances

\* if (uidx >= start_id && uidx <= end_id)
InRange(u, s, e) == u >= s /\ u <= e

\* the getline loop over rois.tsv: rows in range are pushed onto the vectors,
\* the others only raise max_id
RECURSIVE ScanLoop(_, _, _, _, _)
ScanLoop(rows, k, s, e, acc) ==
    IF k > Len(rows) THEN acc
    ELSE LET uidx == rows[k].uid IN
         IF InRange(uidx, s, e)
         THEN ScanLoop(rows, k + 1, s, e,
                  [vec |-> Append(acc.vec, rows[k]), max |-> acc.max])
         ELSE ScanLoop(rows, k + 1, s, e,
                  [vec |-> acc.vec, max |-> MaxOf(acc.max, uidx)])

Scan ==
    /\ pc = "scan"
    /\ LET r == ScanLoop(roistsv, 1, start_id, end_id, [vec |-> << >>, max |-> max_id])
       IN  roivec' = r.vec /\ max_id' = r.max
    /\ pc' = "infer"
    /\ UNCHANGED << files, args, cache, masks, croi, i, annots, marks, rerun >>
    /\ UNCHANGED instances

\* process, first loop: one ROI through inference and mask synthesis
Infer ==
    /\ pc = "infer" /\ croi < Len(roivec)
    /\ masks' = Append(masks, MaskStep(roivec[croi + 1]))
    /\ croi' = croi + 1
    /\ UNCHANGED << files, args, cache, roivec, i, annots, marks, max_id, pc, rerun >>
    /\ UNCHANGED instances

\* the ids the two carry-forward loops run over
LowTo(s) == s - 1
HighFromEnd(e) == e
HighFrom(e) == e + 1
HighTo(m) == m

\* end_id + 1 in int: below INT32_MAX it is the sum; at INT32_MAX the signed
\* overflow is undefined, and the build either wraps it to INT32_MIN or keeps
\* the sum above every int, where the loop body never runs (as from an i of
\* INT32_MAX: max_id is the uid of a row below start_id, or 1)
HighFroms(e) ==
    IF e < INT32_MAX THEN {HighFrom(e)} ELSE {INT32_MIN, INT32_MAX}

\* the ledger phase entered while the first loop is still running
CarryLowEarly ==
    /\ pc = "infer" /\ croi >= 1
    /\ rawtsv' = rawtsv \o CarryForward(rawlines, rawuids, 1, LowTo(start_id))
    /\ statstsv' = statstsv \o CarryForward(statlines, statuids, 1, LowTo(start_id))
    /\ marks' = << << Len(rawtsv'), Len(statstsv') >> >>
    /\ pc' = "regen"
    /\ UNCHANGED << roisthere, roistsv, args, cache, roivec, masks, croi, i, annots,
                    max_id, rerun >>
    /\ UNCHANGED instances

\* process: for (i = 1; i < start_id; i++) re-emit the loaded lines of id i
CarryLow ==
    /\ pc = "infer" /\ croi = Len(roivec)
    /\ rawtsv' = rawtsv \o CarryForward(rawlines, rawuids, 1, LowTo(start_id))
    /\ statstsv' = statstsv \o CarryForward(statlines, statuids, 1, LowTo(start_id))
    /\ marks' = << << Len(rawtsv'), Len(statstsv') >> >>
    /\ pc' = "regen"
    /\ UNCHANGED << roisthere, roistsv, args, cache, roivec, masks, croi, i, annots,
                    max_id, rerun >>
    /\ UNCHANGED instances

\* process, second loop: the raw row, the stats row if the gate passes, the images
Regen ==
    /\ pc = "regen" /\ i < Len(roivec)
    /\ LET rec == roivec[i + 1]
           ms  == masks[i + 1]
       IN  /\ rawtsv' = Append(rawtsv, RawRow(rec, ms))
           /\ statstsv' = IF StatGate(rec, ms)
                          THEN Append(statstsv, StatRow(rec, ms))
                          ELSE statstsv
           /\ annots' = annots \cup {rec.uid}
    /\ i' = i + 1
    /\ UNCHANGED << roisthere, roistsv, args, cache, roivec, masks, croi, marks,
                    max_id, pc, rerun >>
    /\ UNCHANGED instances

\* the high phase with the stats ledger carried over a longer interval than the raw ledger
CarryHighStatsAll ==
    /\ pc = "regen" /\ i = Len(roivec)
    /\ marks' = Append(marks, << Len(rawtsv), Len(statstsv) >>)
    /\ \E from \in HighFroms(end_id) :
        /\ rawtsv' = rawtsv \o CarryForward(rawlines, rawuids, from, HighTo(max_id))
        /\ statstsv' = statstsv \o CarryForward(statlines, statuids, from, MaxUid)
    /\ pc' = "done"
    /\ UNCHANGED << roisthere, roistsv, args, cache, roivec, masks, croi, i, annots,
                    max_id, rerun >>
    /\ UNCHANGED instances

\* process: for (i = end_id + 1; i <= max_id; i++) re-emit the loaded lines of id i
CarryHigh ==
    /\ pc = "regen" /\ i = Len(roivec)
    /\ marks' = Append(marks, << Len(rawtsv), Len(statstsv) >>)
    /\ \E from \in HighFroms(end_id) :
        /\ rawtsv' = rawtsv \o CarryForward(rawlines, rawuids, from, HighTo(max_id))
        /\ statstsv' = statstsv \o CarryForward(statlines, statuids, from, HighTo(max_id))
    /\ pc' = "done"
    /\ UNCHANGED << roisthere, roistsv, args, cache, roivec, masks, croi, i, annots,
                    max_id, rerun >>
    /\ UNCHANGED instances

\* the process ends: its memory is gone, the files stay
Exit ==
    /\ pc \in {"done", "failed"}
    /\ Fresh
    /\ start_id' = 1 /\ end_id' = MaxUid /\ pred_cutoff' = DefaultCutoff /\ modelpt' = "ok"
    /\ rerun' = FALSE
    /\ pc' = "idle"
    /\ UNCHANGED files
    /\ UNCHANGED instances

\* the same command line is run again right after a completed run: a new
\* process, the same arguments, rois.tsv as it was
Again ==
    /\ pc = "done"
    /\ Len(rawtsv) <= MaxLines
    /\ Fresh
    /\ rerun' = TRUE
    /\ pc' = "load"
    /\ UNCHANGED << files, args >>
    /\ UNCHANGED instances

Run ==
    \/ Load \/ Truncate \/ CheckRois \/ LoadModel \/ Scan
    \/ Infer \/ CarryLow \/ Regen \/ CarryHigh

Next ==
    \/ \E m \in Manifests : Upstream(m)
    \/ Remove
    \/ \E m \in StartArgs, n \in EndArgs : Invoke(m, n, DefaultCutoff, "ok")
    \/ \E t \in ModelFiles \ {"ok"} : Invoke(1, MaxUid, DefaultCutoff, t)
    \/ Run
    \/ Again
    \/ Exit

Spec == Init /\ [][Next]_vars

\* ------------------------------------------- one ROI, over a wide input set

ContourChoices ==
    {[area |-> a, lo |-> b[1], hi |-> b[2]] :
        a \in {1000, 1001, 49999, 50000}, b \in {<< 16, 18 >>, << 19, 21 >>}}

ContourLists ==
    {<< >>} \cup {<< c >> : c \in ContourChoices}
            \cup {<< c, d >> : c \in ContourChoices, d \in ContourChoices}

WideImages ==
    {Img(bg, blob, probin, 16, 18, conts) :
        bg \in {0, 150}, blob \in {0, 50, 200}, probin \in {180, 181}, conts \in ContourLists}

Scales == {<< 10, 200 >>, << 0, 200 >>, << 10, 10 >>, << 10, 0 >>}

\* a failed detection comes without a readable source image
WideRows ==
    {[uid |-> 1, fname |-> "w.jpg", sid |-> 1, name |-> "s1",
      det_success |-> TRUE, scale_success |-> sc,
      scale_dark |-> dl[1], scale_light |-> dl[2], roi |-> img] :
        sc \in BOOLEAN, dl \in Scales, img \in WideImages}
    \cup
    {[uid |-> 1, fname |-> "w.jpg", sid |-> 1, name |-> "s1",
      det_success |-> FALSE, scale_success |-> sc,
      scale_dark |-> dl[1], scale_light |-> dl[2], roi |-> NoImage] :
        sc \in BOOLEAN, dl \in Scales}

CutoffArgs == {DefaultCutoff, 200}

InitWide ==
    /\ rawtsv = << >> /\ statstsv = << >>
    /\ roisthere = TRUE /\ roistsv \in {<< r >> : r \in WideRows}
    /\ modelpt = "ok"
    /\ start_id = 1 /\ end_id = MaxUid /\ pred_cutoff \in CutoffArgs
    /\ max_id = MaxIdInit
    /\ rawlines = << >> /\ statlines = << >>
    /\ rawuids = << >> /\ statuids = << >>
    /\ roivec = << >> /\ masks = << >>
    /\ croi = 0 /\ i = 0
    /\ annots = {}
    /\ marks = << >>
    /\ pc = "load"
    /\ rerun = FALSE
    /\ Alone

SpecWide == InitWide /\ [][Run]_vars

\* ---------------------------------------- two instances, one output folder

\* the second loop of process as what it prints for each ROI
RECURSIVE RegenChunks(_, _)
RegenChunks(vec, k) ==
    IF k > Len(vec) THEN << >>
    ELSE LET rec == vec[k]
             ms  == MaskStep(rec)
         IN  << [raw  |-> << RawRow(rec, ms) >>,
                 stat |-> IF StatGate(rec, ms) THEN << StatRow(rec, ms) >> ELSE << >>] >>
             \o RegenChunks(vec, k + 1)

Join(a, b) == [raw |-> a.raw \o b.raw, stat |-> a.stat \o b.stat]

\* what one run prints into the two streams, cut where it calls fflush: after
\* each ROI of the second loop and at the end of process
Chunks(loaded, rows, s, e) ==
    LET r    == ScanLoop(rows, 1, s, e, [vec |-> << >>, max |-> MaxIdInit])
        low  == [raw  |-> CarryForward(loaded.raw, Uids(loaded.raw), 1, LowTo(s)),
                 stat |-> CarryForward(loaded.stat, Uids(loaded.stat), 1, LowTo(s))]
        high == [raw  |-> CarryForward(loaded.raw, Uids(loaded.raw), HighFrom(e), HighTo(r.max)),
                 stat |-> CarryForward(loaded.stat, Uids(loaded.stat), HighFrom(e), HighTo(r.max))]
        per  == RegenChunks(r.vec, 1)
    IN  IF per = << >> THEN << Join(low, high) >>
        ELSE << Join(low, per[1]) >> \o Tail(per) \o << high >>

RECURSIVE Flatten(_)
Flatten(chunks) ==
    IF chunks = << >> THEN NoLedgers
    ELSE Join(Head(chunks), Flatten(Tail(chunks)))

\* the ledgers one run leaves when nothing else touches the folder
Output(loaded, rows, s, e) == Flatten(Chunks(loaded, rows, s, e))

\* the bytes of a file that were never written: a line's width of NUL
Hole == [uid |-> 0]

\* write(2) of a flushed buffer at the stream's own offset; offsets are counted
\* in lines, every line taken to be of one width
WriteAt(f, pos, buf) ==
    IF buf = << >> THEN f
    ELSE [k \in 1 .. MaxOf(Len(f), pos + Len(buf)) |->
            IF k > pos /\ k <= pos + Len(buf) THEN buf[k - pos]
            ELSE IF k <= Len(f) THEN f[k] ELSE Hole]

\* main: an instance reads both ledgers
PLoad(p) ==
    /\ ppc[p] = "load"
    /\ pcache' = [pcache EXCEPT ![p] = [raw |-> rawtsv, stat |-> statstsv]]
    /\ order' = Append(order, p)
    /\ overlap' = (overlap \/ \E q \in Procs \ {p} : ppc[q] \notin {"load", "done"})
    /\ ppc' = [ppc EXCEPT ![p] = "open"]
    /\ UNCHANGED << files, args, cache, locals, pc, rerun, pargs, pchunks, ppos, prior >>

\* opening without truncation
POpenKeep(p) ==
    /\ ppc[p] = "open"
    /\ ppos' = [ppos EXCEPT ![p] = [raw |-> 0, stat |-> 0]]
    /\ ppc' = [ppc EXCEPT ![p] = "scan"]
    /\ UNCHANGED << files, args, cache, locals, pc, rerun, pargs, pcache, pchunks,
                    prior, order, overlap >>

\* main: fopen(.., "w") empties both files; the streams start at offset 0
POpen(p) ==
    /\ ppc[p] = "open"
    /\ rawtsv' = << >> /\ statstsv' = << >>
    /\ ppos' = [ppos EXCEPT ![p] = [raw |-> 0, stat |-> 0]]
    /\ ppc' = [ppc EXCEPT ![p] = "scan"]
    /\ UNCHANGED << roisthere, roistsv, args, cache, locals, pc, rerun, pargs, pcache,
                    pchunks, prior, order, overlap >>

\* main and the first loop of process: rois.tsv is read, the masks are made;
\* what the instance will print is settled by what it loaded
PScan(p) ==
    /\ ppc[p] = "scan"
    /\ pchunks' = [pchunks EXCEPT ![p] = Chunks(pcache[p], roistsv, pargs[p][1], pargs[p][2])]
    /\ ppc' = [ppc EXCEPT ![p] = "write"]
    /\ UNCHANGED << files, args, cache, locals, pc, rerun, pargs, pcache, ppos,
                    prior, order, overlap >>

\* process: the lines printed up to the next fflush reach the two files
PWrite(p) ==
    /\ ppc[p] = "write"
    /\ LET c == Head(pchunks[p]) IN
        /\ rawtsv' = WriteAt(rawtsv, ppos[p].raw, c.raw)
        /\ statstsv' = WriteAt(statstsv, ppos[p].stat, c.stat)
        /\ ppos' = [ppos EXCEPT ![p] = [raw  |-> ppos[p].raw + Len(c.raw),
                                        stat |-> ppos[p].stat + Len(c.stat)]]
    /\ pchunks' = [pchunks EXCEPT ![p] = Tail(pchunks[p])]
    /\ ppc' = [ppc EXCEPT ![p] = IF Tail(pchunks[p]) = << >> THEN "done" ELSE "write"]
    /\ UNCHANGED << roisthere, roistsv, args, cache, locals, pc, rerun, pargs, pcache,
                    prior, order, overlap >>

\* the ledgers a full run over an earlier manifest left
PriorManifests == {m \in Manifests : \A k \in DOMAIN m : m[k].fname = "a.jpg"}
Priors == {Output(NoLedgers, m, 1, MaxUid) : m \in PriorManifests}

\* the ranges the two command lines set: start <= end
TwoRanges == {r \in (1 .. MaxUid) \X (1 .. MaxUid) : r[1] <= r[2]}

InitTwo ==
    /\ prior \in Priors
    /\ rawtsv = prior.raw /\ statstsv = prior.stat
    /\ roisthere = TRUE /\ roistsv \in PriorManifests
    /\ modelpt = "ok"
    /\ start_id = 1 /\ end_id = MaxUid /\ pred_cutoff = DefaultCutoff
    /\ max_id = MaxIdInit
    /\ rawlines = << >> /\ statlines = << >>
    /\ rawuids = << >> /\ statuids = << >>
    /\ roivec = << >> /\ masks = << >>
    /\ croi = 0 /\ i = 0
    /\ annots = {}
    /\ marks = << >>
    /\ pc = "idle"
    /\ rerun = FALSE
    /\ ppc = [p \in Procs |-> "load"]
    /\ pargs \in [Procs -> TwoRanges]
    /\ pcache = [p \in Procs |-> NoLedgers]
    /\ pchunks = [p \in Procs |-> << >>]
    /\ ppos = [p \in Procs |-> [raw |-> 0, stat |-> 0]]
    /\ order = << >>
    /\ overlap = FALSE

NextTwo == \E p \in Procs : PLoad(p) \/ POpen(p) \/ PScan(p) \/ PWrite(p)

SpecTwo == InitTwo /\ [][NextTwo]_vars

\* ------------------------------------------ one run, --end up to INT32_MAX

\* what --end can be set to: a small id, the default, the largest int
WideEndArgs == EndArgs \cup {INT32_MAX - 10, INT32_MAX}

\* one run over ledgers an earlier run left
InitEnd ==
    /\ \E led \in Priors : rawtsv = led.raw /\ statstsv = led.stat
    /\ roisthere = TRUE /\ roistsv \in Manifests
    /\ modelpt = "ok"
    /\ start_id \in StartArgs /\ end_id \in WideEndArgs /\ pred_cutoff = DefaultCutoff
    /\ max_id = MaxIdInit
    /\ rawlines = << >> /\ statlines = << >>
    /\ rawuids = << >> /\ statuids = << >>
    /\ roivec = << >> /\ masks = << >>
    /\ croi = 0 /\ i = 0
    /\ annots = {}
    /\ marks = << >>
    /\ pc = "load"
    /\ rerun = FALSE
    /\ Alone

SpecEnd == InitEnd /\ [][Run]_vars

\* ------------------------------------------------------------------ claims

Proper == start_id <= end_id + 1

\* C1 (merge idempotence): when a completed run is repeated with the same
\* manifest and the same range, both ledgers after the second run equal the
\* ledgers after the first (which are what the second run loaded).
C1_MergeIdempotent ==
    (pc = "done" /\ rerun) => (rawtsv = rawlines /\ statstsv = statlines)

\* C1 restricted to the ranges with start <= end + 1, where the two
\* carry-forward loops do not overlap: the repeat leaves both ledgers as they were.
C1_IdempotentProperRange ==
    (pc = "done" /\ rerun /\ Proper) => (rawtsv = rawlines /\ statstsv = statlines)

\* the lines of a ledger whose key satisfies / does not satisfy the range
Inside(lines) == SelectSeq(lines, LAMBDA l : Atoi(l) >= start_id /\ Atoi(l) <= end_id)
Outside(lines) == SelectSeq(lines, LAMBDA l : Atoi(l) < start_id \/ Atoi(l) > end_id)

Count(lines, l) == Cardinality({j \in DOMAIN lines : lines[j] = l})
Range(lines) == {lines[j] : j \in DOMAIN lines}
SameLines(a, b) == \A l \in Range(a) \cup Range(b) : Count(a, l) = Count(b, l)

\* the rows this run computed, in the order it handled the ROIs
RECURSIVE FreshRaw(_)
FreshRaw(k) ==
    IF k > Len(masks) \/ k > Len(roivec) THEN << >>
    ELSE << RawRow(roivec[k], masks[k]) >> \o FreshRaw(k + 1)

RECURSIVE FreshStat(_)
FreshStat(k) ==
    IF k > Len(masks) \/ k > Len(roivec) THEN << >>
    ELSE (IF StatGate(roivec[k], masks[k]) THEN << StatRow(roivec[k], masks[k]) >> ELSE << >>)
         \o FreshStat(k + 1)

NonEmptyRange == start_id <= end_id

\* C2 (range partition), stated for the ranges with start <= end: after a run,
\* the lines of either ledger with uid < start or uid > end are exactly the
\* lines the loaded ledger held for those uids, and the lines with uid in
\* [start, end] are exactly the rows computed in this run.
C2_RangePartition ==
    (pc = "done" /\ NonEmptyRange) =>
        /\ SameLines(Outside(rawtsv), Outside(rawlines))
        /\ SameLines(Outside(statstsv), Outside(statlines))
        /\ Inside(rawtsv) = FreshRaw(1)
        /\ Inside(statstsv) = FreshStat(1)

\* C3 (ledger uniqueness): after a run each ledger holds at most one row per
\* uid, and every row is a row computed in this run (uid in the range) or a
\* loaded line (uid outside the range).
C3_LedgerUnique ==
    pc = "done" =>
        /\ \A l \in Range(rawtsv) :
              /\ Cardinality({j \in DOMAIN rawtsv : Atoi(rawtsv[j]) = Atoi(l)}) <= 1
              /\ IF InRange(Atoi(l), start_id, end_id)
                 THEN l \in Range(FreshRaw(1)) ELSE l \in Range(rawlines)
        /\ \A l \in Range(statstsv) :
              /\ Cardinality({j \in DOMAIN statstsv : Atoi(statstsv[j]) = Atoi(l)}) <= 1
              /\ IF InRange(Atoi(l), start_id, end_id)
                 THEN l \in Range(FreshStat(1)) ELSE l \in Range(statlines)

\* C4 (fatal start-up errors): when the run ends on the missing manifest or on
\* the missing or invalid model, raw.tsv and stats.tsv hold what they held
\* when the process started (what it loaded).
C4_FatalLeavesLedgers ==
    pc = "failed" => (rawtsv = rawlines /\ statstsv = statlines)

\* the part of each ledger written by the regenerate phase
RegenRaw == SubSeq(rawtsv, marks[1][1] + 1, IF Len(marks) = 2 THEN marks[2][1] ELSE Len(rawtsv))
RegenStat == SubSeq(statstsv, marks[1][2] + 1, IF Len(marks) = 2 THEN marks[2][2] ELSE Len(statstsv))

RowsOf(lines, u) == SelectSeq(lines, LAMBDA l : Atoi(l) = u)

\* the gate as the claim lists it, read off the record and its raw row
ClaimGate(rec, ms, raw) ==
    /\ rec.det_success /\ rec.scale_success /\ ms.has_foreground
    /\ raw.fsz > 0
    /\ raw.fm.num > 0
    /\ raw.backsmean.num * raw.fm.den - raw.fm.num * raw.backsmean.den > 0
    /\ rec.scale_light > 0 /\ rec.scale_dark > 0 /\ rec.scale_light > rec.scale_dark
    /\ raw.backlmean.num > 0 /\ raw.backsmean.num > 0

LogArgsPositive(st) ==
    \A a \in {st.logabs, st.logdelta, st.loglight, st.logdark,
              st.logback, st.logstrict, st.logmean, st.logsz} :
        a.ln.num > 0 /\ a.ln.den > 0

\* C5 (stats gating): for every ROI the second loop has handled, the raw row is
\* there, a stats row is there iff the eleven conditions all hold, and every
\* logarithm of a stats row was taken of a strictly positive number.
C5_StatsGating ==
    pc \in {"regen", "done"} =>
        \A k \in 1 .. i :
            LET rec == roivec[k]
                raw == RowsOf(RegenRaw, rec.uid)
                st  == RowsOf(RegenStat, rec.uid)
            IN  /\ Len(raw) = 1
                /\ Len(st) = (IF ClaimGate(rec, masks[k], raw[1]) THEN 1 ELSE 0)
                /\ \A j \in DOMAIN st : LogArgsPositive(st[j])

C5_Witness ==
    /\ pc = "done" /\ i = 1 /\ Len(RegenStat) = 1
    /\ RegenStat[1].logabs.ln.num > 0

C5_WitnessSuppressed ==
    /\ pc = "done" /\ i = 1 /\ Len(RegenStat) = 0 /\ Len(RegenRaw) = 1
    /\ roivec[1].det_success /\ roivec[1].scale_success /\ masks[1].has_foreground
    /\ RegenRaw[1].fm.num > 0 /\ RegenRaw[1].backsmean.num > 0

\* C7 (foreground selection): the foreground mask is the union of the filled
\* regions of the contours with 1000 < area < 50000, and has-foreground says
\* whether there is such a contour.
C7_ForegroundSelection ==
    \A k \in 1 .. Len(masks) :
        roivec[k].det_success =>
            LET img   == roivec[k].roi
                conts == FindContours(masks[k].binary, img)
                pass  == {j \in DOMAIN conts : 1000 < conts[j].area /\ conts[j].area < 50000}
            IN  /\ masks[k].foreground =
                       UNION {{p \in Pix(img.cols) : conts[j].lo <= p /\ p <= conts[j].hi} : j \in pass}
                /\ masks[k].has_foreground = (pass # {})

\* two contours pass, with different regions, next to contours that fail
C7_Witness ==
    /\ Len(masks) = 1 /\ roivec[1].det_success
    /\ LET conts == FindContours(masks[1].binary, roivec[1].roi) IN
       /\ Len(conts) = 2
       /\ conts[1].area = 1001 /\ conts[2].area = 49999 /\ conts[1].lo # conts[2].lo
       /\ masks[1].foreground = 16 .. 21

C7_WitnessBoundary ==
    /\ Len(masks) = 1 /\ roivec[1].det_success
    /\ LET conts == FindContours(masks[1].binary, roivec[1].roi) IN
       /\ Len(conts) = 2
       /\ conts[1].area = 1000 /\ conts[2].area = 50000
       /\ ~masks[1].has_foreground

\* C8 (configurable cutoff): a pixel of the binary mask is set iff the
\* probability raster exceeds the configured cutoff there.
C8_CutoffConfigurable ==
    \A k \in 1 .. Len(masks) :
        roivec[k].det_success =>
            masks[k].binary =
                {p \in Pix(roivec[k].roi.cols) : masks[k].graymask[p] > pred_cutoff}

\* C6 (failed detection): a ROI whose detection failed upstream is not put
\* through the network and has no foreground; its raw row is written once, with
\* foreground mean and size -1 and both background means 0; it gets no stats
\* row; and the rows of the ROIs after it are written too.
C6_DetectionFailureRecorded ==
    pc \in {"regen", "done"} =>
        /\ \A k \in 1 .. i :
              ~roivec[k].det_success =>
                  LET raw == RowsOf(RegenRaw, roivec[k].uid) IN
                  /\ ~masks[k].forwarded /\ ~masks[k].has_foreground
                  /\ Len(raw) = 1
                  /\ raw[1].fm = [num |-> -1, den |-> 1] /\ raw[1].fsz = -1
                  /\ raw[1].backsmean = [num |-> 0, den |-> 1]
                  /\ raw[1].backlmean = [num |-> 0, den |-> 1]
                  /\ RowsOf(RegenStat, roivec[k].uid) = << >>
        /\ Len(RegenRaw) = i
        /\ pc = "done" => i = Len(roivec)

\* a failed detection first, then a ROI that gets both rows
C6_Witness ==
    /\ pc = "done" /\ Len(roivec) = 2
    /\ ~roivec[1].det_success /\ roivec[2].det_success
    /\ Len(RegenRaw) = 2 /\ Len(RegenStat) = 1
    /\ RegenRaw[1].fsz = -1 /\ RegenStat[1].uid = roivec[2].uid

\* C9 (per-ROI sequencing): the masks of ROI k+1 are not made before the raw
\* row of ROI k is written.
C9_PerRoiSequencing == Len(masks) <= i + 1

InRun == pc \in {"infer", "regen", "done"}

\* C9 as amended: the ROIs are the in-range rows in manifest order; the first
\* pass makes the masks of every ROI, in that order, before the second pass
\* writes the first row; the second pass writes rows and images in that order.
C9_TwoPasses ==
    InRun =>
        /\ roivec = SelectSeq(roistsv, LAMBDA r : r.uid >= start_id /\ r.uid <= end_id)
        /\ croi = Len(masks) /\ croi <= Len(roivec)
        /\ \A k \in 1 .. Len(masks) : masks[k].forwarded = roivec[k].det_success
        /\ pc = "infer" => i = 0
        /\ pc \in {"regen", "done"} =>
              /\ Len(masks) = Len(roivec)
              /\ Len(RegenRaw) = i
              /\ \A k \in 1 .. i : RegenRaw[k].uid = roivec[k].uid
              /\ annots = {roivec[k].uid : k \in 1 .. i}

\* all the masks are there and no row is written yet; a later state has rows
C9_Witness ==
    /\ pc = "regen" /\ i = 1 /\ Len(roivec) = 3 /\ Len(masks) = 3
    /\ RegenRaw[1].uid = 1 /\ annots = {1}

\* the lines the high phase wrote
HighRaw == SubSeq(rawtsv, marks[2][1] + 1, Len(rawtsv))
HighStat == SubSeq(statstsv, marks[2][2] + 1, Len(statstsv))

Skipped == {roistsv[k].uid : k \in {j \in DOMAIN roistsv :
                roistsv[j].uid < start_id \/ roistsv[j].uid > end_id}}

SetMax(S) == CHOOSE x \in S : \A y \in S : y <= x

\* the phase wrote exactly the loaded lines with end + 1 <= uid <= m, in
\* ascending id and in their loaded order within an id
HighIs(written, loaded, m) ==
    /\ SameLines(written, SelectSeq(loaded, LAMBDA l : end_id + 1 <= Atoi(l) /\ Atoi(l) <= m))
    /\ \A a, b \in DOMAIN written : a < b => Atoi(written[a]) <= Atoi(written[b])
    /\ \A l \in Range(written) : RowsOf(written, Atoi(l)) = RowsOf(loaded, Atoi(l))

\* C10 (carry-forward-high bound): the high phase re-emits the loaded lines
\* with end + 1 <= uid <= M, M the highest uid among the skipped manifest
\* rows, and none when no row was skipped.
C10_HighBound ==
    pc = "done" =>
        LET m == IF Skipped = {} THEN end_id ELSE SetMax(Skipped) IN
        HighIs(HighRaw, rawlines, m) /\ HighIs(HighStat, statlines, m)

\* C10 as amended: M is the highest uid among the skipped manifest rows or 1,
\* whichever is larger (max_id starts at 1).
C10_HighBoundFromOne ==
    pc = "done" =>
        LET m == IF Skipped = {} THEN 1
                 ELSE (IF SetMax(Skipped) > 1 THEN SetMax(Skipped) ELSE 1) IN
        HighIs(HighRaw, rawlines, m) /\ HighIs(HighStat, statlines, m)

\* lines above end are re-emitted up to a skipped row's uid, and a loaded line
\* above that uid is not
C10_Witness ==
    /\ pc = "done" /\ start_id = 1 /\ end_id = 1 /\ max_id = 2
    /\ Len(HighRaw) = 1 /\ Atoi(HighRaw[1]) = 2
    /\ \E j \in DOMAIN rawlines : Atoi(rawlines[j]) = 3

\* every manifest row is in range and the loaded ledger has a line above end
C10_WitnessNoSkip ==
    /\ pc = "done" /\ Skipped = {} /\ roistsv # << >> /\ end_id >= 1
    /\ HighRaw = << >>
    /\ \E j \in DOMAIN rawlines : Atoi(rawlines[j]) > end_id

\* the ledgers as they are on disk
Final == [raw |-> rawtsv, stat |-> statstsv]

\* the ledgers after instance a has run to its end and then instance b
Serial(a, b) ==
    Output(Output(prior, roistsv, pargs[a][1], pargs[a][2]), roistsv, pargs[b][1], pargs[b][2])

AllDone == \A p \in Procs : ppc[p] = "done"

\* the step model of one run and the printed chunks agree
RunIsOutput ==
    pc = "done" =>
        Final = Output([raw |-> rawlines, stat |-> statlines], roistsv, start_id, end_id)

\* C11 (concurrent runs are unsafe): two invocations on one output folder leave
\* the ledgers of the serial order they ran in whenever the second loaded after
\* the first had finished; when they overlap, an interleaving is reachable
\* (C11_Witness) whose final ledgers equal the result of neither serial order.
C11_SerialUnlessOverlapped ==
    (AllDone /\ ~overlap) => Final = Serial(order[1], order[2])

\* the two overlapped, one of them loaded the ledger the other had already
\* truncated, and a prior line that both serial orders keep is gone
C11_Witness ==
    /\ AllDone /\ overlap
    /\ Final \notin {Serial(1, 2), Serial(2, 1)}
    /\ \E p \in Procs : pcache[p] = NoLedgers /\ prior.raw # << >>
    /\ \E l \in Range(prior.raw) :
          /\ l \in Range(Serial(1, 2).raw) /\ l \in Range(Serial(2, 1).raw)
          /\ l \notin Range(rawtsv)

\* every line the high phase wrote has a key above end
HighAboveEnd ==
    \A l \in Range(HighRaw) \cup Range(HighStat) : Atoi(l) > end_id

\* C12 (no overflow of the carry-forward-high lower bound): for every end the
\* command line can set, INT32_MAX included, end + 1 does not overflow, so the
\* high phase never visits an id <= end: no line it re-emits has a key <= end.
C12_HighAboveEnd == pc = "done" => HighAboveEnd

\* C12 for the ends below INT32_MAX, where end + 1 is an int
C12_HighAboveEndBelowMax == (pc = "done" /\ end_id < INT32_MAX) => HighAboveEnd

\* the run with --end INT32_MAX in which the high phase re-emits a line of an
\* id that is in the range
C12_Overflowed ==
    /\ pc = "done" /\ end_id = INT32_MAX /\ start_id = 1
    /\ \E l \in Range(HighRaw) : Atoi(l) = 1

\* the uids that have a row in a ledger
Keys(lines) == {Atoi(lines[j]) : j \in DOMAIN lines}

\* C13 (stats within raw): starting from empty ledgers, after any sequence of
\* runs with any manifests and ranges, every uid that has a row in stats.tsv
\* has a row in raw.tsv.
C13_StatsWithinRaw == Keys(statstsv) \subseteq Keys(rawtsv)

\* a later run has carried stats rows forward and written a fresh one, and
\* the raw ledger has a uid (a failed detection) with no stats row
C13_Witness ==
    /\ pc = "done"
    /\ marks[1][2] >= 1 /\ Len(RegenStat) >= 1
    /\ Keys(statstsv) # Keys(rawtsv)

====
